---- MODULE Spec2Model ----
(***************************************************************************)
(* Model of Validation/analyze_fleiss_kappa_agreement.py.                  *)
(*                                                                         *)
(* numpy float64 values are modelled as extended rationals <<n, d>>:       *)
(*   d > 0   the finite value n/d in lowest terms,                         *)
(*   <<1,0>> +inf, <<-1,0>> -inf, <<0,0>> NaN.                             *)
(* Rounding of float64 is not modelled: all integer sums that occur are    *)
(* far below 2^53 and therefore exact; quotients are kept exact.           *)
(* Python indices are 0-based, TLA+ sequences 1-based: current_row keeps   *)
(* the Python value and cell writes go to index current_row + 1.           *)
(***************************************************************************)
EXTENDS Integers, Sequences, FiniteSets, TLC

\* ------------------------------------------------------------------ bounds
MaxResponses == 10   \* largest Total_Responses of a single-question table
NumQuestions == 2    \* question identifiers in the small raw tables
MaxDfRows == 2       \* rows of a small raw table
MaxTotal == 1        \* largest Total in a small raw table
MaxRows == 3         \* rows of a matrix passed directly to calculate_fleiss_kappa
MaxCols == 3         \* columns of such a matrix
MaxEntry == 2        \* largest entry of such a matrix
MaxRatings == 3      \* largest sum of entries of such a matrix
MaxKappaNum == 240   \* kappa values n/KappaDen with |n| <= MaxKappaNum
KappaDen == 200      \* grid of the kappa values passed directly to the interpreter

VARIABLES
    pc,            \* position of the program
    df,            \* raw table read by main()
    fleiss_df,     \* prepare_data_for_fleiss_kappa(df)
    row_idx,       \* number of rows of fleiss_df already taken by iterrows()
    row,           \* loop variable of analyze_agreement_by_question
    data_matrix,   \* matrix being built / passed to calculate_fleiss_kappa
    current_row,   \* fill cursor of analyze_agreement_by_question
    i,             \* iterations done in the current range() loop
    N, P, Pe,      \* locals of the last call of calculate_fleiss_kappa
    ret_at,        \* which return statement that call took
    kappa,         \* its result
    permuted,      \* a row-permuted copy of data_matrix
    kappa_perm,    \* calculate_fleiss_kappa(permuted)
    label,         \* result of a direct call of interpret_fleiss_kappa
    results        \* the results list of analyze_agreement_by_question

vars == <<pc, df, fleiss_df, row_idx, row, data_matrix, current_row, i,
          N, P, Pe, ret_at, kappa, permuted, kappa_perm, label, results>>

\* ------------------------------------------------- float64 as exact values
NaN == <<0, 0>>
PosInf == <<1, 0>>
NegInf == <<-1, 0>>

Abs(x) == IF x < 0 THEN -x ELSE x

Sign(x) == IF x > 0 THEN 1 ELSE IF x < 0 THEN -1 ELSE 0

RECURSIVE GCD(_, _)
GCD(a, b) == IF b = 0 THEN a ELSE GCD(b, a % b)

\* the float nearest to the quotient n/d of two integers, d # 0
Ratio(n, d) ==
    LET g == GCD(Abs(n), Abs(d))
        s == Sign(d)
    IN  <<(s * n) \div g, (s * d) \div g>>

FromInt(x) == <<x, 1>>

IsNaN(x) == x = NaN
IsInf(x) == x[2] = 0 /\ x[1] # 0
IsFinite(x) == x[2] > 0

\* x / y on numpy float64 scalars: division by zero warns and yields inf or nan
FDiv(x, y) ==
    IF IsNaN(x) \/ IsNaN(y) THEN NaN
    ELSE IF IsInf(x) THEN (IF IsInf(y) THEN NaN
                           ELSE IF y[1] < 0 THEN <<-x[1], 0>> ELSE x)
    ELSE IF IsInf(y) THEN FromInt(0)
    ELSE IF y[1] = 0 THEN <<Sign(x[1]), 0>>
    ELSE Ratio(x[1] * y[2], x[2] * y[1])

\* x - y on float64
FSub(x, y) ==
    IF IsNaN(x) \/ IsNaN(y) THEN NaN
    ELSE IF IsInf(x) THEN (IF IsInf(y) /\ x = y THEN NaN ELSE x)
    ELSE IF IsInf(y) THEN <<-y[1], 0>>
    ELSE Ratio(x[1] * y[2] - y[1] * x[2], x[2] * y[2])

\* x == y on float64: NaN equals nothing
FEq(x, y) == ~IsNaN(x) /\ ~IsNaN(y) /\ x = y

\* x >= y on float64: any comparison with NaN is False
FGe(x, y) ==
    IF IsNaN(x) \/ IsNaN(y) THEN FALSE
    ELSE IF IsInf(x) THEN x[1] > 0 \/ y = x
    ELSE IF IsInf(y) THEN y[1] < 0
    ELSE x[1] * y[2] >= y[1] * x[2]

\* ---------------------------------------------------------------- matrices
\* a numpy array of shape (n, k): the shape is kept apart from the rows so
\* that shapes (0, k) and (n, 0) stay distinct
Matrix(n, k, rows) == [shape |-> <<n, k>>, rows |-> rows]

\* np.zeros((n, k))
Zeros(n, k) == Matrix(n, k, [r \in 1..n |-> [c \in 1..k |-> 0]])

RECURSIVE SeqSum(_)
SeqSum(s) == IF s = <<>> THEN 0 ELSE s[1] + SeqSum(Tail(s))

\* data_matrix.sum(axis=0)
ColSums(M) ==
    [c \in 1..M.shape[2] |-> SeqSum([r \in 1..M.shape[1] |-> M.rows[r][c]])]

\* data_matrix.sum().sum()
TotalSum(M) == SeqSum([r \in 1..M.shape[1] |-> SeqSum(M.rows[r])])

\* (data_matrix ** 2).sum().sum()
SquaredSumSkipLast(M) ==
    SeqSum([r \in 1..(M.shape[1] - 1) |->
              SeqSum([c \in 1..M.shape[2] |-> M.rows[r][c] * M.rows[r][c]])])

SquaredSum(M) ==
    SeqSum([r \in 1..M.shape[1] |->
              SeqSum([c \in 1..M.shape[2] |-> M.rows[r][c] * M.rows[r][c]])])

\* (col_sums ** 2).sum()
SquaredColSum(M) ==
    LET cs == ColSums(M) IN SeqSum([c \in 1..M.shape[2] |-> cs[c] * cs[c]])

\* ---------------------------------------------------- calculate_fleiss_kappa
\* the value returned together with the locals and the return statement taken
KappaCall(ret, at, n, p, pe) ==
    [ret |-> ret, at |-> at, N |-> n, P |-> p, Pe |-> pe]

\* P = (data_matrix ** 2).sum().sum() / (N * (n - 1))
ObservedNoMinusOne(M) ==
    FDiv(FromInt(SquaredSum(M)), FromInt(TotalSum(M) * M.shape[1]))

Observed(M) ==
    FDiv(FromInt(SquaredSum(M)), FromInt(TotalSum(M) * (M.shape[1] - 1)))

\* Pe = (col_sums ** 2).sum() / (N ** 2)
ExpectedDivN(M) ==
    FDiv(FromInt(SquaredColSum(M)), FromInt(TotalSum(M)))

Expected(M) ==
    FDiv(FromInt(SquaredColSum(M)), FromInt(TotalSum(M) * TotalSum(M)))

calculate_fleiss_kappa_no_guard(M) ==
    IF M.shape[1] = 0 \/ M.shape[2] = 0
    THEN KappaCall(NaN, "shape", NaN, NaN, NaN)
    ELSE IF TotalSum(M) = 0
    THEN KappaCall(NaN, "N0", FromInt(0), NaN, NaN)
    ELSE LET p == Observed(M)
             pe == Expected(M)
         IN  KappaCall(FDiv(FSub(p, pe), FSub(FromInt(1), pe)), "end",
                       FromInt(TotalSum(M)), p, pe)

calculate_fleiss_kappa_flipped(M) ==
    IF M.shape[1] = 0 \/ M.shape[2] = 0
    THEN KappaCall(NaN, "shape", NaN, NaN, NaN)
    ELSE IF TotalSum(M) = 0
    THEN KappaCall(NaN, "N0", FromInt(0), NaN, NaN)
    ELSE LET p == Observed(M)
             pe == Expected(M)
         IN  IF FEq(pe, FromInt(1))
             THEN KappaCall(NaN, "Pe1", FromInt(TotalSum(M)), p, pe)
             ELSE KappaCall(FDiv(FSub(pe, p), FSub(FromInt(1), pe)), "end",
                            FromInt(TotalSum(M)), p, pe)

calculate_fleiss_kappa(M) ==
    IF M.shape[1] = 0 \/ M.shape[2] = 0
    THEN KappaCall(NaN, "shape", NaN, NaN, NaN)
    ELSE IF TotalSum(M) = 0
    THEN KappaCall(NaN, "N0", FromInt(0), NaN, NaN)
    ELSE LET p == Observed(M)
             pe == Expected(M)
         IN  IF FEq(pe, FromInt(1))
             THEN KappaCall(NaN, "Pe1", FromInt(TotalSum(M)), p, pe)
             ELSE KappaCall(FDiv(FSub(p, pe), FSub(FromInt(1), pe)), "end",
                            FromInt(TotalSum(M)), p, pe)

\* ---------------------------------------------------- interpret_fleiss_kappa
interpret_no_isna(k) ==
    IF FGe(k, <<81, 100>>) THEN "Almost perfect agreement"
    ELSE IF FGe(k, <<61, 100>>) THEN "Substantial agreement"
    ELSE IF FGe(k, <<41, 100>>) THEN "Moderate agreement"
    ELSE IF FGe(k, <<21, 100>>) THEN "Fair agreement"
    ELSE IF FGe(k, <<1, 100>>) THEN "Slight agreement"
    ELSE "Poor agreement"

interpret_swapped(k) ==
    IF IsNaN(k) THEN "No data"
    ELSE IF FGe(k, <<81, 100>>) THEN "Almost perfect agreement"
    ELSE IF FGe(k, <<61, 100>>) THEN "Substantial agreement"
    ELSE IF FGe(k, <<21, 100>>) THEN "Fair agreement"
    ELSE IF FGe(k, <<41, 100>>) THEN "Moderate agreement"
    ELSE IF FGe(k, <<1, 100>>) THEN "Slight agreement"
    ELSE "Poor agreement"

interpret_fleiss_kappa(k) ==
    IF IsNaN(k) THEN "No data"
    ELSE IF FGe(k, <<81, 100>>) THEN "Almost perfect agreement"
    ELSE IF FGe(k, <<61, 100>>) THEN "Substantial agreement"
    ELSE IF FGe(k, <<41, 100>>) THEN "Moderate agreement"
    ELSE IF FGe(k, <<21, 100>>) THEN "Fair agreement"
    ELSE IF FGe(k, <<1, 100>>) THEN "Slight agreement"
    ELSE "Poor agreement"

\* ------------------------------------------- prepare_data_for_fleiss_kappa
\* df['Question'].unique(): distinct values in order of first appearance
RECURSIVE Unique(_)
Unique(s) ==
    IF s = <<>> THEN <<>>
    ELSE <<s[1]>> \o Unique(SelectSeq(Tail(s), LAMBDA x : x # s[1]))

\* question_data[...== X]['Total'].iloc[0] if len(...) > 0 else 0
CategoryCountDefaultOne(question_data, X) ==
    LET m == SelectSeq(question_data, LAMBDA r : r.Categorical_Answers = X)
    IN  IF Len(m) > 0 THEN m[1].Total ELSE 1

CategoryCount(question_data, X) ==
    LET m == SelectSeq(question_data, LAMBDA r : r.Categorical_Answers = X)
    IN  IF Len(m) > 0 THEN m[1].Total ELSE 0

\* 'Total_Responses': a_count + b_count + c_count
TotalResponses(a, b, c) == a + b + c

\* the dict appended to fleiss_data for one question
QuestionSummary(t, question) ==
    LET question_data == SelectSeq(t, LAMBDA r : r.Question = question)
        a_count == CategoryCount(question_data, "A")
        b_count == CategoryCount(question_data, "B")
        c_count == CategoryCount(question_data, "C")
    IN  [Question |-> question,
         Category_A |-> a_count,
         Category_B |-> b_count,
         Category_C |-> c_count,
         Total_Responses |-> TotalResponses(a_count, b_count, c_count)]

prepare_data_for_fleiss_kappa(t) ==
    LET qs == Unique([j \in 1..Len(t) |-> t[j].Question])
    IN  [j \in 1..Len(qs) |-> QuestionSummary(t, qs[j])]

\* ------------------------------------------------------------------ inputs
Categories == {"A", "B", "C"}

ResponseRecord(q, cat, total) ==
    [Question |-> q, Categorical_Answers |-> cat, Total |-> total]

\* raw tables with few rows: any order, repeated and missing categories
SmallTables ==
    LET recs == {ResponseRecord(q, cat, total) :
                    q \in 1..NumQuestions, cat \in Categories, total \in 0..MaxTotal}
    IN  UNION {[1..m -> recs] : m \in 0..MaxDfRows}

\* raw tables of one question with its three category rows, in any order
Triples ==
    {t \in (0..MaxResponses) \X (0..MaxResponses) \X (0..MaxResponses) :
        t[1] + t[2] + t[3] <= MaxResponses}

SingleQuestionTables ==
    {[j \in 1..3 |-> <<ResponseRecord(1, "A", t[1]), ResponseRecord(1, "B", t[2]),
                       ResponseRecord(1, "C", t[3])>>[p[j]]] :
        t \in Triples, p \in Permutations(1..3)}

\* the rows of k non-negative integer rater counts that sum to at most budget
RowsUpTo(k, budget) ==
    {r \in [1..k -> 0..MaxEntry] : SeqSum(r) <= budget}

\* the sequences of n such rows that sum to at most budget in all
RECURSIVE RowSeqs(_, _, _)
RowSeqs(n, k, budget) ==
    IF n = 0 THEN {<<>>}
    ELSE UNION {{<<r>> \o rest : rest \in RowSeqs(n - 1, k, budget - SeqSum(r))} :
                  r \in RowsUpTo(k, budget)}

\* matrices of non-negative integer rater counts, of every shape
Matrices ==
    UNION {{Matrix(n, k, rows) : rows \in RowSeqs(n, k, MaxRatings)} :
             n \in 0..MaxRows, k \in 0..MaxCols}

\* kappa values handed directly to the interpreter
KappaValues ==
    {Ratio(n, KappaDen) : n \in (-MaxKappaNum)..MaxKappaNum} \cup {NaN, PosInf, NegInf}

NoRow ==
    [Question |-> 0, Category_A |-> 0, Category_B |-> 0, Category_C |-> 0,
     Total_Responses |-> 0]

\* -------------------------------------------------------------------- Init
\* main() starts with the loaded table; the functions of the module are also
\* called directly, with a matrix or with a kappa value
Init ==
    /\ \/ /\ pc = "prepare"
          /\ df \in SmallTables \cup SingleQuestionTables
          /\ data_matrix = Zeros(0, 0)
          /\ kappa = NaN
       \/ /\ pc = "call_kappa"
          /\ df = <<>>
          /\ data_matrix \in Matrices
          /\ kappa = NaN
       \/ /\ pc = "call_interpret"
          /\ df = <<>>
          /\ data_matrix = Zeros(0, 0)
          /\ kappa \in KappaValues
    /\ fleiss_df = <<>>
    /\ row_idx = 0
    /\ row = NoRow
    /\ current_row = 0
    /\ i = 0
    /\ N = NaN
    /\ P = NaN
    /\ Pe = NaN
    /\ ret_at = "none"
    /\ permuted = Zeros(0, 0)
    /\ kappa_perm = NaN
    /\ label = "none"
    /\ results = <<>>

\* ----------------------------------------------------------------- actions
\* main(): fleiss_df = prepare_data_for_fleiss_kappa(df)
Prepare ==
    /\ pc = "prepare"
    /\ fleiss_df' = prepare_data_for_fleiss_kappa(df)
    /\ pc' = "iterrows"
    /\ UNCHANGED <<df, row_idx, row, data_matrix, current_row, i, N, P, Pe,
                   ret_at, kappa, permuted, kappa_perm, label, results>>

\* for _, row in fleiss_df.iterrows(): ... data_matrix = np.zeros(...);
\* current_row = 0; or the end of the loop and the return
IterRows ==
    /\ pc = "iterrows"
    /\ IF row_idx < Len(fleiss_df)
       THEN /\ row' = fleiss_df[row_idx + 1]
            /\ row_idx' = row_idx + 1
            /\ data_matrix' = Zeros(row'.Total_Responses, 3)
            /\ current_row' = 0
            /\ i' = 0
            /\ pc' = "fill_A"
       ELSE /\ pc' = "done"
            /\ UNCHANGED <<row, row_idx, data_matrix, current_row, i>>
    /\ UNCHANGED <<df, fleiss_df, N, P, Pe, ret_at, kappa, permuted,
                   kappa_perm, label, results>>

\* data_matrix[current_row, col] = 1
SetCellNextColumn(M, r, col) ==
    [M EXCEPT !.rows[r + 1][((col + 1) % 3) + 1] = 1]

SetCell(M, r, col) ==
    [M EXCEPT !.rows[r + 1][col + 1] = 1]

\* one iteration of  for _ in range(int(count)): data_matrix[current_row, col] = 1;
\* current_row += 1  or the exit of that loop; an index outside the matrix raises
Fill(here, count, col, next) ==
    /\ pc = here
    /\ IF i < count
       THEN IF current_row < data_matrix.shape[1]
            THEN /\ data_matrix' = SetCell(data_matrix, current_row, col)
                 /\ current_row' = current_row + 1
                 /\ i' = i + 1
                 /\ pc' = here
            ELSE /\ pc' = "IndexError"
                 /\ UNCHANGED <<data_matrix, current_row, i>>
       ELSE /\ pc' = next
            /\ i' = 0
            /\ UNCHANGED <<data_matrix, current_row>>
    /\ UNCHANGED <<df, fleiss_df, row_idx, row, N, P, Pe, ret_at, kappa,
                   permuted, kappa_perm, label, results>>

FillA == Fill("fill_A", row.Category_A, 0, "fill_B")

FillB == Fill("fill_B", row.Category_B, 1, "fill_C")

FillC == Fill("fill_C", row.Category_C, 2, "kappa")

\* kappa = calculate_fleiss_kappa(data_matrix)
ComputeKappa ==
    /\ pc = "kappa"
    /\ LET call == calculate_fleiss_kappa(data_matrix)
       IN  /\ kappa' = call.ret
           /\ ret_at' = call.at
           /\ N' = call.N
           /\ P' = call.P
           /\ Pe' = call.Pe
    /\ pc' = "append"
    /\ UNCHANGED <<df, fleiss_df, row_idx, row, data_matrix, current_row, i,
                   permuted, kappa_perm, label, results>>

\* results.append({...})
AppendResult ==
    /\ pc = "append"
    /\ results' = Append(results,
                         [Question |-> row.Question,
                          Fleiss_Kappa |-> kappa,
                          N_Responses |-> row.Total_Responses,
                          Answer_A_Count |-> row.Category_A,
                          Answer_B_Count |-> row.Category_B,
                          Answer_C_Count |-> row.Category_C,
                          Agreement_Level |-> interpret_fleiss_kappa(kappa)])
    /\ pc' = "iterrows"
    /\ UNCHANGED <<df, fleiss_df, row_idx, row, data_matrix, current_row, i,
                   N, P, Pe, ret_at, kappa, permuted, kappa_perm, label>>

\* a direct call calculate_fleiss_kappa(data_matrix)
CallKappa ==
    /\ pc = "call_kappa"
    /\ LET call == calculate_fleiss_kappa(data_matrix)
       IN  /\ kappa' = call.ret
           /\ ret_at' = call.at
           /\ N' = call.N
           /\ P' = call.P
           /\ Pe' = call.Pe
    /\ pc' = "called"
    /\ UNCHANGED <<df, fleiss_df, row_idx, row, data_matrix, current_row, i,
                   permuted, kappa_perm, label, results>>

\* the rows of M in the order p
PermuteRows(M, p) ==
    Matrix(M.shape[1], M.shape[2], [r \in 1..M.shape[1] |-> M.rows[p[r]]])

\* a second call, on the same rows in another order
CallPermuted ==
    /\ pc = "called"
    /\ \E p \in Permutations(1..data_matrix.shape[1]) :
          /\ permuted' = PermuteRows(data_matrix, p)
          /\ kappa_perm' = calculate_fleiss_kappa(permuted').ret
    /\ pc' = "permuted"
    /\ UNCHANGED <<df, fleiss_df, row_idx, row, data_matrix, current_row, i,
                   N, P, Pe, ret_at, kappa, label, results>>

\* a direct call interpret_fleiss_kappa(kappa)
CallInterpret ==
    /\ pc = "call_interpret"
    /\ label' = interpret_fleiss_kappa(kappa)
    /\ pc' = "interpreted"
    /\ UNCHANGED <<df, fleiss_df, row_idx, row, data_matrix, current_row, i,
                   N, P, Pe, ret_at, kappa, permuted, kappa_perm, results>>

Next ==
    \/ Prepare
    \/ IterRows
    \/ FillA
    \/ FillB
    \/ FillC
    \/ ComputeKappa
    \/ AppendResult
    \/ CallKappa
    \/ CallPermuted
    \/ CallInterpret

Spec == Init /\ [][Next]_vars

TypeOK ==
    /\ pc \in {"prepare", "iterrows", "fill_A", "fill_B", "fill_C", "kappa",
               "append", "done", "IndexError", "call_kappa", "called",
               "permuted", "call_interpret", "interpreted"}
    /\ current_row \in 0..(MaxResponses + 1)

\* ================================================================ properties
\* sum of f over its domain, independent of any order of the rows
RECURSIVE FnSum(_)
FnSum(f) ==
    IF DOMAIN f = {} THEN 0
    ELSE LET x == CHOOSE y \in DOMAIN f : TRUE
         IN  f[x] + FnSum([y \in (DOMAIN f) \ {x} |-> f[y]])

Cells(M) == (1..M.shape[1]) \X (1..M.shape[2])

CellSum(M) == FnSum([rc \in Cells(M) |-> M.rows[rc[1]][rc[2]]])

CellSquareSum(M) ==
    FnSum([rc \in Cells(M) |-> M.rows[rc[1]][rc[2]] * M.rows[rc[1]][rc[2]]])

ColumnSum(M, c) == FnSum([r \in 1..M.shape[1] |-> M.rows[r][c]])

ColumnSquareSum(M) ==
    FnSum([c \in 1..M.shape[2] |-> ColumnSum(M, c) * ColumnSum(M, c)])

\* the finite value x equals the quotient num/den of two integers, den # 0
IsQuotient(x, num, den) == IsFinite(x) /\ x[1] * den = x[2] * num

LowLabels == {"Poor agreement", "No data"}

Degenerate(r) ==
    \/ r.N_Responses = 0
    \/ r.N_Responses = 1
    \/ r.Answer_A_Count = r.N_Responses
    \/ r.Answer_B_Count = r.N_Responses
    \/ r.Answer_C_Count = r.N_Responses

RowDegenerate ==
    \/ row.Total_Responses <= 1
    \/ row.Total_Responses \in {row.Category_A, row.Category_B, row.Category_C}

\* C1: a question with zero responses, with one response or with all its
\* responses in one category never makes the analysis fail, and its result
\* carries the NaN kappa and the label "No data".
C1_DegenerateIsNoData ==
    /\ (pc = "IndexError" => ~RowDegenerate)
    /\ \A j \in 1..Len(results) :
          Degenerate(results[j]) =>
             /\ IsNaN(results[j].Fleiss_Kappa)
             /\ results[j].Agreement_Level = "No data"

C1_Witness ==
    \E j \in 1..Len(results) :
       /\ results[j].N_Responses = 1
       /\ results[j].Agreement_Level = "No data"
       /\ IsInf(P)

\* C2: calculate_fleiss_kappa returns NaN for every matrix with exactly one
\* row, whatever its non-negative integer entries.
C2_SingleRowIsUndefined ==
    (pc = "called" /\ data_matrix.shape[1] = 1) => IsNaN(kappa)

\* C3: with n >= 2 rows, k >= 1 columns, N > 0 and Pe # 1 the result of
\* calculate_fleiss_kappa is exactly (P - Pe) / (1 - Pe) with
\* P = (sum of squared entries) / (N (n - 1)) and Pe = (sum of squared column
\* sums) / N^2; it is NaN when n = 0, k = 0, N = 0 or Pe = 1; and the matrix
\* of the counts A=5, B=5, C=0 gives -7/9.
C3_KappaFormula ==
    /\ pc \in {"called", "append"} =>
          LET n == data_matrix.shape[1]
              k == data_matrix.shape[2]
              total == CellSum(data_matrix)
              sq == CellSquareSum(data_matrix)
              colsq == ColumnSquareSum(data_matrix)
          IN  IF n = 0 \/ k = 0 \/ total = 0 \/ colsq = total * total
              THEN IsNaN(kappa)
              ELSE n >= 2 =>
                     \* (sq/(total(n-1)) - colsq/total^2) / (1 - colsq/total^2)
                     IsQuotient(kappa, sq * total - colsq * (n - 1),
                                (n - 1) * (total * total - colsq))
    /\ (pc = "append" /\ row.Category_A = 5 /\ row.Category_B = 5
           /\ row.Category_C = 0) => kappa = <<-7, 9>>

C3_Witness ==
    /\ pc = "called"
    /\ data_matrix.shape[1] >= 2
    /\ \E r \in 1..data_matrix.shape[1] : \E c \in 1..data_matrix.shape[2] :
          data_matrix.rows[r][c] >= 2
    /\ IsFinite(kappa)
    /\ kappa[1] # 0

\* C4: interpret_fleiss_kappa maps NaN, and only NaN, to "No data", and every
\* finite kappa to the label of the one band that contains it:
\* [0.81, oo) almost perfect, [0.61, 0.81) substantial, [0.41, 0.61) moderate,
\* [0.21, 0.41) fair, [0.01, 0.21) slight, (-oo, 0.01) poor.
Bands ==
    {[hasLo |-> TRUE, lo |-> 81, hasHi |-> FALSE, hi |-> 0,
      label |-> "Almost perfect agreement"],
     [hasLo |-> TRUE, lo |-> 61, hasHi |-> TRUE, hi |-> 81,
      label |-> "Substantial agreement"],
     [hasLo |-> TRUE, lo |-> 41, hasHi |-> TRUE, hi |-> 61,
      label |-> "Moderate agreement"],
     [hasLo |-> TRUE, lo |-> 21, hasHi |-> TRUE, hi |-> 41,
      label |-> "Fair agreement"],
     [hasLo |-> TRUE, lo |-> 1, hasHi |-> TRUE, hi |-> 21,
      label |-> "Slight agreement"],
     [hasLo |-> FALSE, lo |-> 0, hasHi |-> TRUE, hi |-> 1,
      label |-> "Poor agreement"]}

\* the finite x lies in the band b, whose ends are hundredths
InBand(x, b) ==
    /\ b.hasLo => 100 * x[1] >= b.lo * x[2]
    /\ b.hasHi => 100 * x[1] < b.hi * x[2]

C4_InterpretBands ==
    pc = "interpreted" =>
       /\ label \in {b.label : b \in Bands} \cup {"No data"}
       /\ (label = "No data") <=> IsNaN(kappa)
       /\ IsFinite(kappa) =>
             /\ Cardinality({b \in Bands : InBand(kappa, b)}) = 1
             /\ \A b \in Bands : InBand(kappa, b) => label = b.label

C4_Witness ==
    /\ pc = "interpreted"
    /\ kappa = <<41, 100>>
    /\ label = "Moderate agreement"

\* C5: prepare_data_for_fleiss_kappa yields one summary per distinct question
\* of the table, in the order of first appearance; a count is the Total of a
\* row of that question and category, or 0 when there is no such row; and
\* Total_Responses is the sum of the three counts.
QuestionsOf(t) == {t[j].Question : j \in 1..Len(t)}

FirstIndex(t, q) ==
    CHOOSE j \in 1..Len(t) :
       t[j].Question = q /\ \A m \in 1..(j - 1) : t[m].Question # q

RowsOf(t, q, X) ==
    {j \in 1..Len(t) : t[j].Question = q /\ t[j].Categorical_Answers = X}

CountIsTotal(t, q, X, count) ==
    IF RowsOf(t, q, X) = {} THEN count = 0
    ELSE \E j \in RowsOf(t, q, X) : count = t[j].Total

C5_PrepareSummaries ==
    pc \in {"iterrows", "fill_A", "fill_B", "fill_C", "kappa", "append",
            "done", "IndexError"} =>
       /\ Len(fleiss_df) = Cardinality(QuestionsOf(df))
       /\ \A j \in 1..Len(fleiss_df) :
             /\ fleiss_df[j].Question \in QuestionsOf(df)
             /\ CountIsTotal(df, fleiss_df[j].Question, "A", fleiss_df[j].Category_A)
             /\ CountIsTotal(df, fleiss_df[j].Question, "B", fleiss_df[j].Category_B)
             /\ CountIsTotal(df, fleiss_df[j].Question, "C", fleiss_df[j].Category_C)
             /\ fleiss_df[j].Total_Responses =
                   fleiss_df[j].Category_A + fleiss_df[j].Category_B
                      + fleiss_df[j].Category_C
       /\ \A j, m \in 1..Len(fleiss_df) :
             j < m => FirstIndex(df, fleiss_df[j].Question)
                         < FirstIndex(df, fleiss_df[m].Question)

C5_Witness ==
    /\ pc = "iterrows"
    /\ Len(df) = 2
    /\ df[1].Question = 2
    /\ df[1].Categorical_Answers = "C"
    /\ df[2].Question = 1
    /\ RowsOf(df, 2, "B") = {}
    /\ Len(fleiss_df) = 2
    /\ fleiss_df[1].Category_B = 0
    /\ fleiss_df[1].Category_C = 1

\* C6: the matrix built for the counts (a, b, c) has a + b + c rows and 3
\* columns, a rows with their 1 in the first column, then b in the second,
\* then c in the third; every row sums to 1, the column sums are (a, b, c),
\* the N of calculate_fleiss_kappa is a + b + c, and no write falls outside
\* the matrix: the cursor is below the row count at every write and equals
\* it after the last.
OneHotRow(r, a, b) ==
    IF r <= a THEN <<1, 0, 0>> ELSE IF r <= a + b THEN <<0, 1, 0>> ELSE <<0, 0, 1>>

C6_MatrixConstruction ==
    LET a == row.Category_A
        b == row.Category_B
        c == row.Category_C
        n == a + b + c
    IN  /\ pc # "IndexError"
        /\ pc \in {"fill_A", "fill_B", "fill_C", "kappa", "append"} =>
              /\ data_matrix.shape = <<n, 3>>
              /\ Len(data_matrix.rows) = n
              /\ \A r \in 1..n : Len(data_matrix.rows[r]) = 3
        /\ (\/ pc = "fill_A" /\ i < a
            \/ pc = "fill_B" /\ i < b
            \/ pc = "fill_C" /\ i < c) => current_row < n
        /\ pc \in {"kappa", "append"} =>
              /\ current_row = n
              /\ \A r \in 1..n :
                    /\ data_matrix.rows[r] = OneHotRow(r, a, b)
                    /\ FnSum(data_matrix.rows[r]) = 1
              /\ \A col \in 1..3 :
                    ColumnSum(data_matrix, col) = <<a, b, c>>[col]
        /\ (pc = "append" /\ ret_at # "shape") => N = <<n, 1>>

C6_Witness ==
    /\ pc = "append"
    /\ row.Category_A >= 2
    /\ row.Category_B >= 2
    /\ row.Category_C >= 2
    /\ current_row = row.Total_Responses
    /\ N = <<row.Total_Responses, 1>>

\* C7: calculate_fleiss_kappa returns the same result, a value or NaN, on a
\* matrix and on every reordering of its rows.
C7_RowPermutationInvariant ==
    pc = "permuted" => kappa_perm = kappa

C7_Witness ==
    /\ pc = "permuted"
    /\ data_matrix.shape[1] = 3
    /\ permuted.rows[1] # data_matrix.rows[1]
    /\ permuted.rows[3] # data_matrix.rows[3]
    /\ IsFinite(kappa)
    /\ kappa_perm = kappa

\* C8, as stated: for the counts A=10, B=0, C=0 calculate_fleiss_kappa
\* computes P = 1 and Pe = 1, returns NaN at the Pe == 1 guard, and the label
\* is "No data".
Unanimous10 ==
    /\ pc \in {"append", "iterrows", "done"}
    /\ row_idx >= 1
    /\ row.Category_A = 10
    /\ row.Category_B = 0
    /\ row.Category_C = 0

LastResultIsNoData ==
    pc # "append" =>
       /\ IsNaN(results[Len(results)].Fleiss_Kappa)
       /\ results[Len(results)].Agreement_Level = "No data"

ClosedFormAgrees(x, a, b, c) ==
    LET total == a + b + c
        colsq == a * a + b * b + c * c
    IN  IF total = 0 \/ colsq = total * total
        THEN IsNaN(x)
        ELSE \* (1/(total-1) - colsq/total^2) / (1 - colsq/total^2)
             IsQuotient(x, total * total - colsq * (total - 1),
                        (total - 1) * (total * total - colsq))

C9_ClosedForm ==
    \A j \in 1..Len(results) :
       ClosedFormAgrees(results[j].Fleiss_Kappa, results[j].Answer_A_Count,
                        results[j].Answer_B_Count, results[j].Answer_C_Count)

C9_Witness ==
    \E j \in 1..Len(results) :
       /\ results[j].Answer_A_Count >= 1
       /\ results[j].Answer_B_Count >= 2
       /\ results[j].Answer_C_Count >= 3
       /\ IsFinite(results[j].Fleiss_Kappa)

\* C10: a question with four or more responses gets a kappa that is NaN or
\* strictly negative and the label "Poor agreement" or "No data"; any other
\* label occurs only for questions with 2 or 3 responses.
C10_ManyResponsesArePoor ==
    \A j \in 1..Len(results) :
       /\ results[j].N_Responses >= 4 =>
             /\ \/ IsNaN(results[j].Fleiss_Kappa)
                \/ IsFinite(results[j].Fleiss_Kappa) /\ results[j].Fleiss_Kappa[1] < 0
             /\ results[j].Agreement_Level \in LowLabels
       /\ results[j].Agreement_Level \notin LowLabels =>
             results[j].N_Responses \in {2, 3}

C10_Witness ==
    \E j \in 1..Len(results) :
       /\ results[j].N_Responses >= 4
       /\ results[j].Agreement_Level = "Poor agreement"
       /\ results[j].Fleiss_Kappa[1] < 0

====
